---- MODULE Spec2Model ----
(***************************************************************************)
(* A model of the 7DTD modlet combiner: XML fragments and localization     *)
(* tables of several modlets are parsed into an intermediate store         *)
(* (db_processor.py) and assembled into one combined modlet                *)
(* (modlet_writer.py, xml_writer.py).                                      *)
(*                                                                         *)
(* Representation.                                                         *)
(*  - A path is the tuple of its components; the file name is the last.    *)
(*  - An XML document is its parsed tree: a root tag and the sequence of   *)
(*    the root's child elements.  An element is [tag, attr, kids]: its     *)
(*    start tag, its attributes and the number of nested child elements.   *)
(*    A serialized XML text holding several elements is the sequence of    *)
(*    those elements.                                                      *)
(*  - A text at rest in the store is [b64, text]: b64 tells whether the    *)
(*    column holds the base64 form of text or text itself.                 *)
(*  - An output XML file is a sequence of lines [indent, kind, tag, attr]; *)
(*    indent counts levels of two spaces.                                  *)
(*  - A localization record is the sequence of its fields; a field is a    *)
(*    string.  An output line of the table is a sequence of cells          *)
(*    [quoted, val].                                                       *)
(***************************************************************************)
EXTENDS Naturals, Sequences, FiniteSets, TLC

VARIABLES
    encoding,               \* DBProcessor.encoding
    modlets,                \* table modlets, keyed by unique_id
    xml_data,               \* table xml_data, in rowid order
    localization_data,      \* table localization_data, in rowid order
    modinfo_xml,            \* <output>/Combined_Modlet/ModInfo.xml
    localization_txt,       \* <output>/Combined_Modlet/Config/Localization.txt
    config_files,           \* the *.xml files of <output>/Combined_Modlet/Config
    written_files,          \* XMLWriter.written_files
    original_total_size,    \* XMLWriter.original_total_size
    file_xml_block_counts,  \* ModletWriter.file_xml_block_counts
    warnings,               \* the size warnings logged by the last write_modlet call
    checked_files,          \* history: the files as validate_all_files and
                            \* check_total_filesize last found them
    cur,                    \* find_modlets: index of the modlet being processed
    found,                  \* find_modlets: the list of modlet_info it returns
    runs,                   \* number of write_modlet calls made
    raised,                 \* whether the last write_modlet call raised
    tree,                   \* history: the XML files of the source tree walked so far
    parsed,                 \* history: the fragment files given to XMLParser.parse
    loc_parsed,             \* history: the tables given to LocalizationParser.parse
    pc,                     \* main: the call it makes next
    run_no,                 \* the number of the invocation of the program
    args,                   \* the dictionary parse_arguments returned
    env,                    \* the database file and the output directory on disk
    layout,                 \* the files of the source tree, in os.walk order
    log,                    \* the messages main and its callees logged in this invocation
    exc,                    \* the exception main caught, "" when none
    exit_code,              \* the exit status of the process, "running" until it ends
    modinfo_doc,            \* the document in <output>/Combined_Modlet/ModInfo.xml
    xml_files,              \* FileLocator.xml_files
    localization_files,     \* FileLocator.localization_files
    first_run,              \* history: the store and the output as the first invocation left them
    calls                   \* history: the calls made on the store and what they returned

store_vars  == <<encoding, modlets, xml_data, localization_data>>
output_vars == <<modinfo_xml, localization_txt, config_files>>
writer_vars == <<written_files, original_total_size, file_xml_block_counts, warnings,
                 checked_files>>
main_vars   == <<pc, run_no, args, env, layout, log, exc, exit_code, modinfo_doc,
                 xml_files, localization_files, first_run>>
vars == <<encoding, modlets, xml_data, localization_data, modinfo_xml,
          localization_txt, config_files, written_files, original_total_size,
          file_xml_block_counts, warnings, checked_files, cur, found, runs, raised, tree,
          parsed, loc_parsed, pc, run_no, args, env, layout, log, exc, exit_code,
          modinfo_doc, xml_files, localization_files, first_run, calls>>

----------------------------------------------------------------------------
(* Bounds of the model *)

MaxFiles    == 3    \* fragment files parsed in one run
MaxChildren == 2    \* child elements under the root of a fragment file
MaxRecords  == 2    \* records after the first one in a localization table
MaxModlets  == 3    \* modlet roots of a tree whose descriptors vary
MaxRuns     == 2    \* write_modlet calls against the store

(* The source tree: modlet roots in the order os.walk meets them. *)
Modlets   == <<"Alpha", "Beta">>
Version   == "1.0"
FileNames == {"loot.xml", "items.xml"}
RootTags  == {"config", "configs"}
Encodings == {"base64", "none"}

Element(t, a, k) == [tag |-> t, attr |-> a, kids |-> k]
Elements == {Element("append", "a", 1)}

RECURSIVE SeqsUpTo(_, _)
SeqsUpTo(S, n) ==
    IF n = 0 THEN {<<>>}
    ELSE LET shorter == SeqsUpTo(S, n - 1)
         IN  shorter \cup {Append(s, x) : s \in {t \in shorter : Len(t) = n - 1}, x \in S}

Malformed == [ok |-> FALSE, root |-> "", children |-> <<>>]
Docs == {[ok |-> TRUE, root |-> r, children |-> c] :
            r \in RootTags, c \in SeqsUpTo(Elements, MaxChildren)} \cup {Malformed}

\* A file on disk: the encoding of its bytes, whether they start with a
\* byte-order mark, and the XML document they hold.
File(codec, bom, doc) == [codec |-> codec, bom |-> bom, doc |-> doc]
PlainFile(doc) == File("utf-8", FALSE, doc)
BomFile    == File("utf-8", TRUE,
                   [ok |-> TRUE, root |-> "config", children |-> <<Element("append", "a", 1)>>])
Latin1File == File("latin-1", FALSE,
                   [ok |-> TRUE, root |-> "config", children |-> <<Element("append", "a", 1)>>])
\* A fragment file whose root holds an element named like the wrapper.
NestedFile == PlainFile([ok |-> TRUE, root |-> "config",
                         children |-> <<Element("config", "", 1)>>])
Files == {PlainFile(doc) : doc \in Docs} \cup {BomFile, Latin1File, NestedFile}

FragmentPaths(m) == {<<m, "Config", n>> : n \in FileNames}
                        \cup {<<m, "Config", "sub", "loot.xml">>}

ModInfoPath(m) == <<m, "ModInfo.xml">>
IsDescriptor(path) == path[Len(path)] = "ModInfo.xml"
ModInfoDoc(name, version) ==
    [ok |-> TRUE, root |-> "xml",
     children |-> <<Element("Name", name, 0), Element("Version", version, 0)>>]

\* A tree whose descriptors vary: the directories of its modlet roots in
\* the order os.walk meets them, and the names and versions they declare.
ModletDirs == <<"d1", "d2", "d3", "d4">>
Names      == {"Mod", "Mod_1"}
Versions   == {"0", "1_0"}

----------------------------------------------------------------------------
(* Helpers *)

RECURSIVE FirstSeenFrom(_, _, _)
FirstSeenFrom(s, i, acc) ==
    IF i > Len(s) THEN acc
    ELSE FirstSeenFrom(s, i + 1,
                       IF \E j \in 1..Len(acc) : acc[j] = s[i] THEN acc ELSE Append(acc, s[i]))

\* The distinct members of s, in the order of their first occurrence.
FirstSeen(s) == FirstSeenFrom(s, 1, <<>>)

RECURSIVE Flatten(_)
Flatten(ss) == IF ss = <<>> THEN <<>> ELSE Head(ss) \o Flatten(Tail(ss))

Range(s) == {s[i] : i \in 1..Len(s)}

EmptyMap == [x \in {} |-> 0]

Min(S) == CHOOSE x \in S : \A y \in S : x <= y

\* The map m with the <<key, value>> pairs of the sequence kvs put into it.
RECURSIVE Overlay(_, _)
Overlay(m, kvs) ==
    IF kvs = <<>> THEN m
    ELSE Overlay([x \in DOMAIN m \cup {Head(kvs)[1]} |->
                    IF x = Head(kvs)[1] THEN Head(kvs)[2] ELSE m[x]] @@ EmptyMap,
                 Tail(kvs))

RECURSIVE Sum(_)
Sum(s) == IF s = <<>> THEN 0 ELSE Head(s) + Sum(Tail(s))

----------------------------------------------------------------------------
(* configuration.py *)

EXPECTED_HEADER ==
    <<"Key", "File", "Type", "UsedInMainMenu", "NoTranslate", "english",
      "Context / Alternate Text", "german", "latam", "french", "italian",
      "japanese", "koreana", "polish", "brazilian", "russian", "turkish",
      "schinese", "tchinese", "spanish">>

TARGET_LANGUAGES == SubSeq(EXPECTED_HEADER, 8, Len(EXPECTED_HEADER))

QUOTED_COLUMNS == {"english", "Context / Alternate Text"} \cup Range(TARGET_LANGUAGES)

\* str.lower() on the header names
Lower(column) ==
    CASE column = "Key" -> "key"
      [] column = "File" -> "file"
      [] column = "Type" -> "type"
      [] column = "UsedInMainMenu" -> "usedinmainmenu"
      [] column = "NoTranslate" -> "notranslate"
      [] column = "Context / Alternate Text" -> "context / alternate text"
      [] OTHER -> column

\* The columns of table localization_data after id, which are also the
\* parameters of store_localization_data, in order.
LocColumns ==
    <<"modlet_name", "unique_id", "full_path", "short_path", "file",
      "used_in_main_menu", "no_translate", "type", "key", "english", "german",
      "latam", "french", "italian", "japanese", "koreana", "polish",
      "brazilian", "russian", "turkish", "schinese", "tchinese", "spanish",
      "value">>

----------------------------------------------------------------------------
(* db_processor.py *)

encode_data(enc, data) == [b64 |-> enc = "base64", text |-> data]

\* Every value the model decodes is either the base64 form written by
\* encode_data or a plain ASCII name that is no valid base64 text ("Alpha",
\* "Beta"): b64decode gives the text back for the first and fails for the
\* second, where the except branch returns the data unchanged.
decode_data(enc, stored) == stored.text

\* SQL "column = ?": a base64 text is never equal to its own plain text,
\* except that the empty text encodes to the empty text.
ColumnEquals(stored, plain) == stored.text = plain /\ (stored.b64 => plain = <<>>)

\* hashlib.md5(...).hexdigest(): distinct texts are taken to have distinct
\* digests.
md5(id_string) == "md5:" \o id_string

\* id_string = f"{name}_{version}"
generate_unique_id(name, version) == md5(name \o "_" \o version)

store_modlet_info(tbl, name, version) ==
    LET uid == generate_unique_id(name, version)
    IN  [u \in DOMAIN tbl \cup {uid} |->
            IF u = uid THEN [name |-> name, version |-> version] ELSE tbl[u]]

store_xml_data(rows, enc, modlet_name, unique_id, full_path, short_path, outer_tag, content) ==
    Append(rows, [id         |-> Len(rows) + 1,
                  modlet_name |-> modlet_name,
                  unique_id  |-> unique_id,
                  full_path  |-> full_path,
                  short_path |-> short_path,
                  outer_tag  |-> outer_tag,
                  content    |-> encode_data(enc, content)])

\* Mutant of get_xml_data: a short path keeps the contents of its first
\* outer tag only.
get_xml_data_first_tag(rows, enc) ==
    LET sps == FirstSeen([i \in 1..Len(rows) |-> rows[i].short_path])
        Groups(sp) ==
            LET rs == SelectSeq(rows, LAMBDA r : r.short_path = sp)
                ts == SelectSeq(rs, LAMBDA r : r.outer_tag = rs[1].outer_tag)
            IN  <<[outer_tag |-> rs[1].outer_tag,
                   contents  |-> [i \in 1..Len(ts) |-> decode_data(enc, ts[i].content)]]>>
    IN  <<>> \o [k \in 1..Len(sps) |-> [short_path |-> sps[k], groups |-> Groups(sps[k])]]

\* The dictionary get_xml_data returns, as the sequence of its items in
\* dictionary (first insertion) order.
get_xml_data(rows, enc) ==
    LET sps == FirstSeen([i \in 1..Len(rows) |-> rows[i].short_path])
        Groups(sp) ==
            LET rs   == SelectSeq(rows, LAMBDA r : r.short_path = sp)
                tags == FirstSeen([i \in 1..Len(rs) |-> rs[i].outer_tag])
            IN  <<>> \o [j \in 1..Len(tags) |->
                    LET ts == SelectSeq(rs, LAMBDA r : r.outer_tag = tags[j])
                    IN  [outer_tag |-> tags[j],
                         contents  |-> [i \in 1..Len(ts) |-> decode_data(enc, ts[i].content)]]]
    IN  <<>> \o [k \in 1..Len(sps) |-> [short_path |-> sps[k], groups |-> Groups(sps[k])]]

get_xml_metadata(rows, enc, short_path, outer_tag, content) ==
    LET hits == {i \in 1..Len(rows) :
                    /\ rows[i].short_path = short_path
                    /\ rows[i].outer_tag = outer_tag
                    /\ ColumnEquals(rows[i].content, content)}
    IN  IF hits = {} THEN "Unknown"
        ELSE decode_data(enc, [b64 |-> FALSE, text |-> rows[Min(hits)].modlet_name])

\* Mutant of store_localization_data: a row replaces the rows of its key.
store_localization_data_by_key(rows, enc, fields) ==
    LET row  == [c \in Range(LocColumns) |->
                    encode_data(enc, fields[CHOOSE i \in 1..Len(LocColumns) :
                                              LocColumns[i] = c])]
        kept == SelectSeq(rows, LAMBDA r : r.col["key"] # row["key"])
    IN  Append(kept, [id |-> Len(rows) + 1, col |-> row])

store_localization_data(rows, enc, fields) ==
    Append(rows, [id  |-> Len(rows) + 1,
                  col |-> [c \in Range(LocColumns) |->
                             encode_data(enc, fields[CHOOSE i \in 1..Len(LocColumns) :
                                                       LocColumns[i] = c])]])

\* The list of dictionaries get_localization_data returns.
get_localization_data(rows, enc) ==
    [i \in 1..Len(rows) |->
        [c \in DOMAIN rows[i].col |-> decode_data(enc, rows[i].col[c])]]

----------------------------------------------------------------------------
(* parser_xml.py *)

\* A text: whether it starts with U+FEFF, and the document that follows.
Text(bom, doc) == [bom |-> bom, doc |-> doc]

\* content.lstrip() leaves a leading U+FEFF in place (it is no white space),
\* the text does not start with "<?xml", so the declaration is put before
\* it, and ET.fromstring raises ParseError for the character that then
\* precedes the root.  Without the mark the document parses as it is.
fromstring(content) == IF content.bom THEN Malformed ELSE content.doc

xml_get_short_path(full_path) == full_path[Len(full_path)]

\* XMLParser.parse: the root's children are serialized and joined into one
\* text, and that text is stored by one store_xml_data call.
xml_parse(rows, enc, file_path, modlet_name, unique_id, content) ==
    LET doc == fromstring(content)
    IN  IF doc.ok
        THEN store_xml_data(rows, enc, modlet_name, unique_id, file_path,
                            xml_get_short_path(file_path), doc.root, doc.children)
        ELSE rows

----------------------------------------------------------------------------
(* xml_writer.py *)

Line(i, k, t, a) == [indent |-> i, kind |-> k, tag |-> t, attr |-> a]

ElementLines(e, depth) ==
    IF e.kids = 0
    THEN <<Line(depth, "empty", e.tag, e.attr)>>
    ELSE <<Line(depth, "open", e.tag, e.attr)>>
            \o [i \in 1..e.kids |-> Line(depth + 1, "empty", "kid", "")]
            \o <<Line(depth, "close", e.tag, "")>>

BlockLines(block, depth) ==
    <<Line(depth, "comment", "Start XML_Block", block.modlet_name)>>
        \o Flatten([i \in 1..Len(block.content) |-> ElementLines(block.content[i], depth)])
        \o <<Line(depth, "comment", "End XML_Block", block.modlet_name)>>

\* pretty_print of "<config>\n" + blocks + "\n</config>": minidom indents the
\* text under a <root> element that is then removed, so the wrapper is left
\* at one level and its content at two.
pretty_print(blocks) ==
    <<Line(1, "open", "config", "")>>
        \o Flatten([i \in 1..Len(blocks) |-> BlockLines(blocks[i], 2)])
        \o <<Line(1, "close", "config", "")>>

\* The size of a written text, in lines.
ContentSize(lines) == Len(lines)

\* percentage_difference <= 5
Tolerance == 5

AbsDiff(a, b) == IF a >= b THEN a - b ELSE b - a

\* sum(self.written_files.values())
RECURSIVE SumValues(_)
SumValues(m) ==
    IF DOMAIN m = {} THEN 0
    ELSE LET k == CHOOSE k \in DOMAIN m : TRUE
         IN  m[k] + SumValues([x \in DOMAIN m \ {k} |-> m[x]])

\* check_total_filesize, for original_total_size > 0: whether the sizes of
\* the written files sum to within the tolerance of the sizes of the texts
\* written; the warning it logs otherwise names no file.
check_total_filesize(written, original) ==
    AbsDiff(SumValues(written), original) * 100 <= Tolerance * original

\* Mutant of write_file: the file is opened to append, 'a' in place of 'w'.
write_file_append(old_lines, pretty_xml) == old_lines \o pretty_xml

\* open(file_path, 'w') followed by f.write(pretty_xml)
write_file(old_lines, pretty_xml) == pretty_xml

----------------------------------------------------------------------------
(* modlet_writer.py *)

\* The blocks _write_xml_files collects for one item of get_xml_data.
combined_content(rows, enc, item) ==
    Flatten([j \in 1..Len(item.groups) |->
                [i \in 1..Len(item.groups[j].contents) |->
                    [modlet_name |-> get_xml_metadata(rows, enc, item.short_path,
                                                      item.groups[j].outer_tag,
                                                      item.groups[j].contents[i]),
                     content     |-> item.groups[j].contents[i]]]])

\* The loop of _write_xml_files over the items of get_xml_data: for each
\* short path the blocks, their count and the text XMLWriter.write writes.
WriteItem(rows, enc, item) ==
    [short_path      |-> item.short_path,
     xml_block_count |-> Len(combined_content(rows, enc, item)),
     pretty_xml      |-> pretty_print(combined_content(rows, enc, item))]

RECURSIVE WriteItems(_, _, _)
WriteItems(rows, enc, data) ==
    IF data = <<>> THEN <<>>
    ELSE <<WriteItem(rows, enc, Head(data))>> \o WriteItems(rows, enc, Tail(data))

write_xml_files(rows, enc) == WriteItems(rows, enc, get_xml_data(rows, enc))

\* The directory after the files of out are written into it.
RECURSIVE write_all(_, _)
write_all(files, out) ==
    IF out = <<>> THEN files
    ELSE LET f == Head(out).short_path
         IN  write_all([g \in DOMAIN files \cup {f} |->
                            IF g = f
                            THEN write_file(IF f \in DOMAIN files THEN files[f] ELSE <<>>,
                                            Head(out).pretty_xml)
                            ELSE files[g]] @@ EmptyMap,
                       Tail(out))

HasOpenConfig(line)  == line.kind = "open" /\ line.tag = "config" /\ line.attr = ""
HasCloseConfig(line) == line.kind = "close" /\ line.tag = "config"

\* The value of in_config when the loop of post_process_xml_files reaches
\* line i: set by the last line before i that holds "<config>" or
\* "</config>", False when there is none.
InConfig(lines, i) ==
    LET switches == {j \in 1..i - 1 : HasOpenConfig(lines[j]) \/ HasCloseConfig(lines[j])}
    IN  /\ switches # {}
        /\ HasOpenConfig(lines[CHOOSE j \in switches : \A k \in switches : k <= j])

\* The loop of post_process_xml_files over the lines of one file: a line
\* holding "<config>" or "</config>" is kept and switches in_config, any
\* other line loses two leading spaces while in_config.
Deindent(lines) ==
    <<>> \o [i \in 1..Len(lines) |->
                IF HasOpenConfig(lines[i]) \/ HasCloseConfig(lines[i]) THEN lines[i]
                ELSE IF InConfig(lines, i) /\ lines[i].indent >= 1
                     THEN [lines[i] EXCEPT !.indent = @ - 1]
                ELSE lines[i]]

post_process_xml_files(files) == [f \in DOMAIN files |-> Deindent(files[f])]

----------------------------------------------------------------------------
(* parser_localization.py *)

MinColumns == 20

loc_get_short_path(full_path) ==
    <<full_path[Len(full_path) - 1], full_path[Len(full_path)]>>

StartsWithHash(field) == field \in {"#", "#c"}

\* One turn of the loop of LocalizationParser.parse over a record of the csv
\* reader: the record is skipped when it is empty, a comment or too short;
\* otherwise its first 20 fields are bound to names and passed on, positionally,
\* to store_localization_data.
\* Mutant of parse_record: the column test is "<= 20" in place of "< 20".
parse_record_le(rows, enc, file_path, modlet_name, unique_id, row) ==
    IF row = <<>> THEN rows
    ELSE IF StartsWithHash(row[1]) THEN rows
    ELSE IF Len(row) <= MinColumns THEN rows
    ELSE store_localization_data(rows, enc,
            <<modlet_name, unique_id, file_path, loc_get_short_path(file_path),
              row[2], row[4], row[5], row[3], row[1], row[6]>>
                \o SubSeq(row, 7, MinColumns))

parse_record(rows, enc, file_path, modlet_name, unique_id, row) ==
    IF row = <<>> THEN rows
    ELSE IF StartsWithHash(row[1]) THEN rows
    ELSE IF Len(row) < MinColumns THEN rows
    ELSE LET first  == SubSeq(row, 1, MinColumns)
             key    == first[1]
             file   == first[2]
             type   == first[3]
             used_in_main_menu == first[4]
             no_translate      == first[5]
             english           == first[6]
             other_languages   == SubSeq(first, 7, Len(first))
         IN  store_localization_data(rows, enc,
                <<modlet_name, unique_id, file_path, loc_get_short_path(file_path),
                  file, used_in_main_menu, no_translate, type, key, english>>
                    \o other_languages)

RECURSIVE parse_records(_, _, _, _, _, _)
parse_records(rows, enc, file_path, modlet_name, unique_id, records) ==
    IF records = <<>> THEN rows
    ELSE parse_records(
            parse_record(rows, enc, file_path, modlet_name, unique_id, Head(records)),
            enc, file_path, modlet_name, unique_id, Tail(records))

\* next(csv_reader, None) drops the first record, whatever it is.
skip_header(content) == IF content = <<>> THEN <<>> ELSE Tail(content)

loc_parse(rows, enc, file_path, modlet_name, unique_id, content) ==
    parse_records(rows, enc, file_path, modlet_name, unique_id, skip_header(content))

----------------------------------------------------------------------------
(* modlet_writer.py: the localization table *)

Cell(q, v) == [quoted |-> q, val |-> v]

HeaderLine == [c \in 1..Len(EXPECTED_HEADER) |-> Cell(FALSE, EXPECTED_HEADER[c])]

\* entry.get(column.lower(), '') and the quoting of a non-empty value
EntryLine(entry) ==
    [c \in 1..Len(EXPECTED_HEADER) |->
        LET column == EXPECTED_HEADER[c]
            value  == IF Lower(column) \in DOMAIN entry THEN entry[Lower(column)] ELSE ""
        IN  Cell(value # "" /\ column \in QUOTED_COLUMNS, value)]

write_localization_file(old, data) ==
    IF data # <<>>
    THEN [exists |-> TRUE,
          lines  |-> <<HeaderLine>> \o [i \in 1..Len(data) |-> EntryLine(data[i])]]
    ELSE old

----------------------------------------------------------------------------
(* The inputs of the localization parser *)

Keys == {"k1", "k2"}

LineTags == <<"line1", "line2", "line3", "line4", "line5">>

SampleValues ==
    <<"key", "file", "vType", "vUsed", "vNoTr", "vEnglish", "vContext",
      "vGerman", "vLatam", "vFrench", "vItalian", "vJapanese", "vKoreana",
      "vPolish", "vBrazilian", "vRussian", "vTurkish", "vSchinese",
      "vTchinese", "vSpanish", "vExtra">>

\* The record at line i with the given key and n fields: its File field
\* names the line, rows with key "k2" leave english and german empty.
DataRecord(key, n, i) ==
    [c \in 1..n |->
        IF c = 1 THEN key
        ELSE IF c = 2 THEN LineTags[i]
        ELSE IF key = "k2" /\ c \in {6, 8} THEN ""
        ELSE SampleValues[c]]

Shapes == {<<"blank", "", MinColumns>>, <<"comment", "", MinColumns>>,
           <<"data", "k2", MinColumns>>}
            \cup {<<"data", "k1", n>> : n \in {MinColumns - 1, MinColumns, MinColumns + 1}}

RecordOf(shape, i) ==
    IF shape[1] = "blank" THEN <<>>
    ELSE IF shape[1] = "comment" THEN <<"#c", "note">>
    ELSE DataRecord(shape[2], shape[3], i)

\* A table: nothing at all, or a first record (the header, or a data record
\* in its place) followed by up to MaxRecords records.
Tables ==
    {<<>>} \cup
    {<<first>> \o [i \in 1..Len(shapes) |-> RecordOf(shapes[i], i + 1)] :
        first \in {EXPECTED_HEADER, DataRecord("k1", MinColumns, 1)},
        shapes \in SeqsUpTo(Shapes, MaxRecords)}

LocalizationPath(m) == <<m, "Config", "Localization.txt">>

----------------------------------------------------------------------------
(* file_locator.py *)

\* open(file_path, 'r', encoding='utf-8') and f.read(): the text, the mark
\* included, or a UnicodeDecodeError.
read_utf8(file) ==
    IF file.codec = "utf-8"
    THEN [ok |-> TRUE, content |-> Text(file.bom, file.doc)]
    ELSE [ok |-> FALSE, content |-> Text(FALSE, Malformed)]

\* _process_xml_file: a file that cannot be read is logged and left out.
process_xml_file(rows, enc, file_path, modlet_name, unique_id, file) ==
    IF read_utf8(file).ok
    THEN xml_parse(rows, enc, file_path, modlet_name, unique_id, read_utf8(file).content)
    ELSE rows

----------------------------------------------------------------------------
(* modlet_finder.py *)

\* _parse_modinfo: the Name and Version of the descriptor and the
\* identifier computed from them.
parse_modinfo(name, version) ==
    [name |-> name, version |-> version,
     unique_id |-> md5(name \o "_" \o version)]

----------------------------------------------------------------------------
(* modletCombiner.py and modlet_writer.py: the arguments and the descriptor *)

\* The value None of Python, and str() of an argument value.
None == "<None>"
str(value) == IF value = None THEN "None" ELSE value

ArgNames == {"modlet_name", "modlet_author", "modlet_desc", "modlet_ver", "modlet_url"}

GivenArgs == [modlet_name |-> "My Mod", modlet_author |-> "me", modlet_desc |-> "d",
              modlet_ver |-> "1", modlet_url |-> "u"]

\* parse_arguments: vars(args) holds a key for every option, with the value
\* None for an option that was not given.
ArgSets ==
    {[n \in ArgNames |-> IF n \in given THEN GivenArgs[n] ELSE None] :
        given \in SUBSET ArgNames}

\* dict.get(key, default): the default is returned for a missing key only.
dict_get(d, key, default) == IF key \in DOMAIN d THEN d[key] ELSE default

\* The dictionary run_modlet_combiner passes to write_modlet.
combined_modlet_info(a) ==
    [Name        |-> dict_get(a, "modlet_name", "Combined Modlet"),
     Author      |-> dict_get(a, "modlet_author", "Modlet Combiner"),
     Description |-> dict_get(a, "modlet_desc", "A combined modlet"),
     Version     |-> dict_get(a, "modlet_ver", "1.0.0"),
     Website     |-> dict_get(a, "modlet_url", "")]

\* name.replace(" ", "_") on the names of the model
replace_spaces(name) ==
    CASE name = "My Mod" -> "My_Mod"
      [] name = "Combined Modlet" -> "Combined_Modlet"
      [] OTHER -> name

\* _write_modinfo_xml: None has no replace (AttributeError), ET.tostring
\* cannot serialize the value None of Website (TypeError); neither is caught
\* by its handlers and nothing is written then.  The other values go
\* through str().
write_modinfo_xml(modlet_info) ==
    IF modlet_info.Name = None
    THEN [raised |-> "AttributeError", doc |-> Malformed]
    ELSE IF modlet_info.Website = None
    THEN [raised |-> "TypeError", doc |-> Malformed]
    ELSE [raised |-> "",
          doc |-> [ok |-> TRUE, root |-> "xml",
                   children |-> <<Element("Name", replace_spaces(modlet_info.Name), 0),
                                  Element("DisplayName", modlet_info.Name, 0),
                                  Element("Website", modlet_info.Website, 0),
                                  Element("Author", str(modlet_info.Author), 0),
                                  Element("Description", str(modlet_info.Description), 0),
                                  Element("Version", str(modlet_info.Version), 0)>>]]

\* What the first invocation left behind, before there was one.
NoRun ==
    [xml_data |-> <<>>, localization_data |-> <<>>, config_files |-> EmptyMap,
     localization_txt |-> [exists |-> FALSE, lines |-> <<>>], modinfo_xml |-> FALSE]

----------------------------------------------------------------------------
(* The run: modletCombiner.py, modlet_finder.py, file_locator.py *)

Init ==
    /\ encoding \in Encodings
    /\ modlets = EmptyMap
    /\ xml_data = <<>>
    /\ localization_data = <<>>
    /\ modinfo_xml = FALSE
    /\ localization_txt = [exists |-> FALSE, lines |-> <<>>]
    /\ config_files = EmptyMap
    /\ written_files = EmptyMap
    /\ original_total_size = 0
    /\ file_xml_block_counts = EmptyMap
    /\ warnings = {}
    /\ checked_files = EmptyMap
    /\ cur = 0
    /\ found = <<>>
    /\ tree = <<>>
    /\ runs = 0
    /\ raised = FALSE
    /\ parsed = <<>>
    /\ loc_parsed = <<>>
    /\ pc = "find_modlets"
    /\ run_no = 1
    /\ args = GivenArgs
    /\ env = [db |-> "present", outdir |-> "creatable"]
    /\ layout = <<>>
    /\ log = {"Error wiping database", "Error resetting output directory"}
    /\ exc = ""
    /\ exit_code = "running"
    /\ modinfo_doc = write_modinfo_xml(combined_modlet_info(GivenArgs)).doc
    /\ xml_files = <<>>
    /\ localization_files = <<>>
    /\ first_run = NoRun
    /\ calls = <<>>

\* find_modlets meets the next modlet root: its ModInfo.xml is parsed, the
\* modlet is stored, and locate_files('.xml') lists ModInfo.xml first (it
\* lies in the root, os.walk is top-down), whose directory name does not
\* contain the excluded "ModInfo.xml", so it is parsed as a fragment.
FindModlet(dir, name, version) ==
    /\ runs = 0
    /\ cur' = cur + 1
    /\ \E modlet_info \in {parse_modinfo(name, version)} :
           /\ found' = Append(found, modlet_info)
           /\ modlets' = store_modlet_info(modlets, name, version)
           /\ xml_data' = process_xml_file(xml_data, encoding, ModInfoPath(dir), name,
                                           modlet_info.unique_id,
                                           PlainFile(ModInfoDoc(name, version)))
    /\ tree' = Append(tree, [modlet |-> dir, path |-> ModInfoPath(dir),
                             file |-> PlainFile(ModInfoDoc(name, version))])
    /\ UNCHANGED <<encoding, localization_data, output_vars, writer_vars,
                   runs, raised, parsed, loc_parsed, main_vars, calls>>

\* find_modlets meets a modlet root whose ModInfo.xml is malformed:
\* _parse_modinfo logs the error and returns {}, so the modlet is neither
\* stored nor are its files processed.  The root holds a fragment file
\* Config/loot.xml.
SkipModlet(file) ==
    /\ runs = 0
    /\ cur < Len(Modlets)
    /\ cur' = cur + 1
    /\ tree' = tree \o <<[modlet |-> Modlets[cur + 1],
                          path |-> ModInfoPath(Modlets[cur + 1]),
                          file |-> PlainFile(Malformed)],
                         [modlet |-> Modlets[cur + 1],
                          path |-> <<Modlets[cur + 1], "Config", "loot.xml">>,
                          file |-> file]>>
    /\ UNCHANGED <<store_vars, output_vars, writer_vars, found, runs, raised,
                   parsed, loc_parsed, main_vars, calls>>

\* The trees of Spec and SpecLoc: the modlet in directory m declares the
\* name m and the version Version.
StartModlet ==
    /\ cur < Len(Modlets)
    /\ FindModlet(Modlets[cur + 1], Modlets[cur + 1], Version)

\* process_files hands the next fragment file of the current modlet to
\* XMLParser.parse.  os.walk lists Config before Config/sub.
ParseXml(path, file) ==
    /\ runs = 0
    /\ cur >= 1
    /\ found # <<>>
    /\ found[Len(found)].name = Modlets[cur]
    /\ Len(SelectSeq(tree, LAMBDA t : ~IsDescriptor(t.path))) < MaxFiles
    /\ path \in FragmentPaths(Modlets[cur])
    /\ \A i \in 1..Len(tree) :
            /\ tree[i].path # path
            /\ tree[i].modlet = Modlets[cur] => Len(tree[i].path) <= Len(path)
    /\ xml_data' = process_xml_file(xml_data, encoding, path, Modlets[cur],
                                    found[Len(found)].unique_id, file)
    /\ tree' = Append(tree, [modlet |-> Modlets[cur], path |-> path, file |-> file])
    /\ parsed' = IF read_utf8(file).ok
                 THEN Append(parsed, [modlet |-> Modlets[cur], path |-> path,
                                      doc |-> fromstring(read_utf8(file).content)])
                 ELSE parsed
    /\ UNCHANGED <<encoding, modlets, localization_data, output_vars, writer_vars,
                   cur, found, runs, raised, loc_parsed, main_vars, calls>>

\* process_files hands the Localization.txt of the current modlet to
\* LocalizationParser.parse.
ParseLocalization(content) ==
    /\ runs = 0
    /\ cur >= 1
    /\ found # <<>>
    /\ found[Len(found)].name = Modlets[cur]
    /\ \A i \in 1..Len(loc_parsed) : loc_parsed[i].modlet # Modlets[cur]
    /\ localization_data' =
            loc_parse(localization_data, encoding, LocalizationPath(Modlets[cur]),
                      Modlets[cur], found[Len(found)].unique_id, content)
    /\ loc_parsed' = Append(loc_parsed, [modlet  |-> Modlets[cur],
                                         path    |-> LocalizationPath(Modlets[cur]),
                                         content |-> content])
    /\ UNCHANGED <<encoding, modlets, xml_data, output_vars, writer_vars,
                   cur, found, runs, raised, tree, parsed, main_vars, calls>>

\* ModletWriter.write_modlet after the descriptor: the localization table,
\* the XML files with their checks, then the de-indent pass.
\* check_total_filesize divides by original_total_size: when that is 0 the
\* call raises and the de-indent pass is not reached.
WriteFiles ==
    /\ localization_txt' =
            write_localization_file(localization_txt,
                                    get_localization_data(localization_data, encoding))
    /\ \E out \in {write_xml_files(xml_data, encoding)} :
       \E written \in {write_all(config_files, out)} :
       \E total \in {original_total_size
                        + Sum([k \in 1..Len(out) |-> ContentSize(out[k].pretty_xml)])} :
           /\ original_total_size' = total
           /\ written_files' =
                    Overlay(written_files,
                            [k \in 1..Len(out) |->
                                <<out[k].short_path, ContentSize(written[out[k].short_path])>>])
           /\ file_xml_block_counts' =
                    Overlay(file_xml_block_counts,
                            [k \in 1..Len(out) |->
                                <<out[k].short_path, out[k].xml_block_count>>])
           /\ raised' = (total = 0)
           /\ checked_files' = written
           /\ warnings' = IF total = 0 \/ check_total_filesize(written_files', total)
                          THEN {}
                          ELSE {[about |-> "total"]}
           /\ config_files' = IF total = 0 THEN written
                              ELSE post_process_xml_files(written)

\* ModletWriter.write_modlet, called with a name and a website: the
\* descriptor, then the other files.
WriteModlet ==
    /\ runs < MaxRuns
    /\ runs' = runs + 1
    /\ modinfo_xml' = TRUE
    /\ WriteFiles
    /\ UNCHANGED <<store_vars, cur, found, tree, parsed, loc_parsed, main_vars, calls>>

Next ==
    \/ StartModlet
    \/ \E file \in Files : SkipModlet(file)
    \/ \E m \in Range(Modlets) : \E path \in FragmentPaths(m) : \E file \in Files :
            ParseXml(path, file)
    \/ WriteModlet

Spec == Init /\ [][Next]_vars

NextLoc ==
    \/ StartModlet
    \/ \E content \in Tables : ParseLocalization(content)
    \/ WriteModlet

SpecLoc == Init /\ [][NextLoc]_vars

\* find_modlets over a tree whose modlets hold a descriptor only.
NextId ==
    \E name \in Names : \E version \in Versions :
        /\ cur < MaxModlets
        /\ cur < Len(ModletDirs)
        /\ FindModlet(ModletDirs[cur + 1], name, version)

SpecId == Init /\ [][NextId]_vars

----------------------------------------------------------------------------
(* Reading the output back *)

\* The blocks of a written XML file, read from its lines: a block runs from a
\* start marker to the next end marker; a start tag opens an element, an
\* empty-element line inside an open element is a nested child of it, an
\* end tag closes the element.
RECURSIVE BlocksFrom(_, _, _, _)
BlocksFrom(lines, i, open, acc) ==
    IF i > Len(lines) THEN acc
    ELSE LET l == lines[i]
         IN  IF l.kind = "comment" /\ l.tag = "Start XML_Block"
             THEN BlocksFrom(lines, i + 1,
                             <<[start |-> l.attr, inside |-> FALSE, content |-> <<>>]>>, acc)
             ELSE IF l.kind = "comment" /\ l.tag = "End XML_Block" /\ open # <<>>
             THEN BlocksFrom(lines, i + 1, <<>>,
                             Append(acc, [start   |-> open[1].start,
                                          end     |-> l.attr,
                                          content |-> open[1].content]))
             ELSE IF open = <<>>
             THEN BlocksFrom(lines, i + 1, open, acc)
             ELSE IF l.kind = "close"
             THEN BlocksFrom(lines, i + 1, <<[open[1] EXCEPT !.inside = FALSE]>>, acc)
             ELSE IF l.kind = "empty" /\ open[1].inside
             THEN BlocksFrom(lines, i + 1,
                             <<[open[1] EXCEPT !.content[Len(open[1].content)].kids = @ + 1]>>,
                             acc)
             ELSE BlocksFrom(lines, i + 1,
                             <<[open[1] EXCEPT
                                    !.content = Append(@, Element(l.tag, l.attr, 0)),
                                    !.inside = (l.kind = "open")]>>,
                             acc)

BlocksOf(lines) == BlocksFrom(lines, 1, <<>>, <<>>)

\* The root tag of a written XML file: the tag of its first line.
RootOf(lines) == lines[1].tag

\* The elements of a written XML file, in order.
ElementsOf(lines) ==
    Flatten([k \in 1..Len(BlocksOf(lines)) |-> BlocksOf(lines)[k].content])

\* The rows of the store recorded for a short path, in the order recorded.
RowsOf(f) == SelectSeq(xml_data, LAMBDA r : r.short_path = f)

Count(s, x) == Cardinality({i \in 1..Len(s) : s[i] = x})

SameBag(s, t) == \A x \in Range(s) \cup Range(t) : Count(s, x) = Count(t, x)

Assembled == runs >= 1 /\ ~raised

----------------------------------------------------------------------------
(* modlet_finder.py and file_locator.py over a whole tree *)

\* get_config('SKIP_DIRECTORIES', '.git,__pycache__,CombinedModlet')
SKIP_DIRECTORIES == {".git", "__pycache__", "CombinedModlet"}

\* os.path.join(output_path, "Combined_Modlet"), output_path being the
\* source path: the output directory lies in the tree that is walked.
OutputDir == "Combined_Modlet"

\* The names in the trees of SpecMain that end with ".xml".
XmlNames == {"ModInfo.xml", "items.xml", "loot.xml", "loot.xml.bak.xml", "old.xml"}

\* The order in which a directory lists its files.
NameOrder == <<"ModInfo.xml", "items.xml", "loot.xml", "loot.xml.bak.xml", "old.xml">>

Entry(path, file) == [path |-> path, file |-> file]

Dir(path) == SubSeq(path, 1, Len(path) - 1)

\* file.endswith('.xml') and file.lower() == 'localization.txt'
Matches(file_type, path) ==
    \/ file_type = ".xml" /\ path[Len(path)] \in XmlNames
    \/ file_type = "Localization.txt" /\ path[Len(path)] = "Localization.txt"

\* csv.reader over a table written by _write_localization_file: the cells
\* without their quotes.
ReadTable(lines) ==
    [i \in 1..Len(lines) |-> [c \in 1..Len(lines[i]) |-> lines[i][c].val]]

\* An element read from a written file: the text between its tag and its
\* children holds the line breaks and the indentation of the file, which
\* ET.tostring gives back, so its serialization differs from that of the
\* same element read from a file without them.
Indented(e) ==
    IF e.kids = 0 THEN e
    ELSE [tag |-> e.tag, attr |-> e.attr, kids |-> e.kids, text |-> "indented"]

\* The document ET.fromstring finds in a written XML file: the comments are
\* dropped.
ReadXml(lines) ==
    [ok |-> TRUE, root |-> RootOf(lines),
     children |-> [k \in 1..Len(ElementsOf(lines)) |-> Indented(ElementsOf(lines)[k])]]

\* The files of the output directory in the order os.walk lists them.
OutputEntries(mi, doc, loc, cfg) ==
    (IF mi THEN <<Entry(<<OutputDir, "ModInfo.xml">>, PlainFile(doc))>> ELSE <<>>)
    \o (IF loc.exists
        THEN <<Entry(<<OutputDir, "Config", "Localization.txt">>,
                     [table |-> ReadTable(loc.lines)])>>
        ELSE <<>>)
    \o (LET names == SelectSeq(NameOrder, LAMBDA n : n \in DOMAIN cfg)
        IN  [k \in 1..Len(names) |->
                Entry(<<OutputDir, "Config", names[k]>>, PlainFile(ReadXml(cfg[names[k]])))])

FileAt(disk, path) == disk[CHOOSE i \in 1..Len(disk) : disk[i].path = path].file

\* dirs[:] = [d for d in dirs if d not in self.skip_directories]
Pruned(path) == \E i \in 1..Len(path) - 1 : path[i] \in SKIP_DIRECTORIES

\* The directories find_modlets meets that hold a ModInfo.xml, in os.walk
\* order.
Roots(disk) ==
    LET ds == SelectSeq(disk, LAMBDA e : IsDescriptor(e.path) /\ ~Pruned(e.path))
    IN  <<>> \o [i \in 1..Len(ds) |-> Dir(ds[i].path)]

Under(path, root) == Len(path) > Len(root) /\ SubSeq(path, 1, Len(root)) = root

\* any(ex in root for ex in exclude): the test is made on the directory.
Excluded(path, exclude) == \E i \in 1..Len(path) - 1 : path[i] \in exclude

\* locate_files(file_type, path, exclude): the list it returns; the same
\* paths are appended to the list the locator keeps.
locate_files(disk, file_type, path, exclude) ==
    LET es == SelectSeq(disk, LAMBDA e : /\ Under(e.path, path)
                                         /\ Matches(file_type, e.path)
                                         /\ ~Excluded(e.path, exclude))
    IN  <<>> \o [i \in 1..Len(es) |-> es[i].path]

\* str.startswith on the file names of the model
NameStartsWith(s, prefix) == s = prefix \/ (prefix = "loot.xml" /\ s = "loot.xml.bak.xml")

\* f.startswith(path) on paths joined with "/"
StartsWith(f, path) ==
    /\ Len(path) >= 1
    /\ Len(path) <= Len(f)
    /\ \A i \in 1..Len(path) - 1 : f[i] = path[i]
    /\ NameStartsWith(f[Len(path)], path[Len(path)])

\* _process_localization_file
process_localization_file(rows, enc, file_path, modlet_name, unique_id, file) ==
    loc_parse(rows, enc, file_path, modlet_name, unique_id, file.table)

\* The state find_modlets works on: the tables of the store, the lists of
\* the locator, the list it returns, and the calls made on the parsers.
FinderState(tbl, rows, loc_rows) ==
    [modlets |-> tbl, xml_data |-> rows, localization_data |-> loc_rows,
     xml_files |-> <<>>, localization_files |-> <<>>, found |-> <<>>,
     parsed |-> <<>>, loc_parsed |-> <<>>]

\* for xml_file in xml_files: self._process_xml_file(...)
RECURSIVE ProcessXmlFiles(_, _, _, _, _, _)
ProcessXmlFiles(st, disk, enc, modlet_name, unique_id, files) ==
    IF files = <<>> THEN st
    ELSE LET f    == Head(files)
             file == FileAt(disk, f)
         IN  CHOOSE after \in
                {ProcessXmlFiles(s, disk, enc, modlet_name, unique_id, Tail(files)) :
                    s \in {[st EXCEPT
                        !.xml_data = process_xml_file(@, enc, f, modlet_name, unique_id, file),
                        !.parsed = IF read_utf8(file).ok
                                   THEN Append(@, [modlet |-> modlet_name, path |-> f,
                                                   doc |-> fromstring(read_utf8(file).content)])
                                   ELSE @]}} : TRUE

\* for localization_file in localization_files: self._process_localization_file(...)
RECURSIVE ProcessLocalizationFiles(_, _, _, _, _, _)
ProcessLocalizationFiles(st, disk, enc, modlet_name, unique_id, files) ==
    IF files = <<>> THEN st
    ELSE LET f    == Head(files)
             file == FileAt(disk, f)
         IN  CHOOSE after \in
                {ProcessLocalizationFiles(s, disk, enc, modlet_name, unique_id, Tail(files)) :
                    s \in {[st EXCEPT
                        !.localization_data =
                            process_localization_file(@, enc, f, modlet_name, unique_id, file),
                        !.loc_parsed = Append(@, [modlet |-> modlet_name, path |-> f,
                                                  content |-> file.table])]}} : TRUE

\* process_files(modlet_name, unique_id, path): every file of the lists of
\* the locator whose path starts with the given path is processed.
process_files(st, disk, enc, modlet_name, unique_id, path) ==
    ProcessLocalizationFiles(
        ProcessXmlFiles(st, disk, enc, modlet_name, unique_id,
                        SelectSeq(st.xml_files, LAMBDA f : StartsWith(f, path))),
        disk, enc, modlet_name, unique_id,
        SelectSeq(st.localization_files, LAMBDA f : StartsWith(f, path)))

\* for xml_file in xml_files: self.file_locator.process_files(..., xml_file)
RECURSIVE ProcessEach(_, _, _, _, _, _)
ProcessEach(st, disk, enc, modlet_name, unique_id, paths) ==
    IF paths = <<>> THEN st
    ELSE CHOOSE after \in
            {ProcessEach(s, disk, enc, modlet_name, unique_id, Tail(paths)) :
                s \in {process_files(st, disk, enc, modlet_name, unique_id, Head(paths))}} : TRUE

\* _process_modlet_files(root, modlet_info)
process_modlet_files(st, disk, enc, root, modlet_info) ==
    LET located     == locate_files(disk, ".xml", root, {"ModInfo.xml"})
        after_xml   == ProcessEach([st EXCEPT !.xml_files = @ \o located], disk, enc,
                                   modlet_info.name, modlet_info.unique_id, located)
        loc_located == locate_files(disk, "Localization.txt", root, {})
    IN  ProcessEach([after_xml EXCEPT !.localization_files = @ \o loc_located], disk, enc,
                    modlet_info.name, modlet_info.unique_id, loc_located)

\* root.find(tag).get('value') if root.find(tag) is not None else ''
ValueOf(doc, tag) ==
    LET hits == {i \in 1..Len(doc.children) : doc.children[i].tag = tag}
    IN  IF hits = {} THEN "" ELSE doc.children[Min(hits)].attr

\* _parse_modinfo on the document of a descriptor that parses
parse_modinfo_doc(doc) == parse_modinfo(ValueOf(doc, "Name"), ValueOf(doc, "Version"))

\* The loop of find_modlets over the modlet roots: a descriptor that does
\* not parse is logged and its root left out.
RECURSIVE FindFrom(_, _, _, _)
FindFrom(st, disk, enc, roots) ==
    IF roots = <<>> THEN st
    ELSE LET doc == FileAt(disk, Append(Head(roots), "ModInfo.xml")).doc
         IN  IF ~doc.ok THEN FindFrom(st, disk, enc, Tail(roots))
             ELSE LET modlet_info == parse_modinfo_doc(doc)
                  IN  CHOOSE after \in
                        {FindFrom(s, disk, enc, Tail(roots)) :
                            s \in {process_modlet_files(
                                [st EXCEPT
                                    !.found = Append(@, modlet_info),
                                    !.modlets = store_modlet_info(@, modlet_info.name,
                                                                  modlet_info.version)],
                                disk, enc, Head(roots), modlet_info)}} : TRUE

find_modlets(st, disk, enc) == FindFrom(st, disk, enc, Roots(disk))

----------------------------------------------------------------------------
(* The trees, the environments and the earlier output of SpecMain *)

OneChild == PlainFile([ok |-> TRUE, root |-> "config",
                       children |-> <<Element("append", "a", 1)>>])

OneRecord == <<EXPECTED_HEADER, DataRecord("k1", MinColumns, 1)>>

Descriptor(dir, name) ==
    Entry(Append(dir, "ModInfo.xml"), PlainFile(ModInfoDoc(name, Version)))

\* One modlet with one fragment file.
Flat(file) == <<Descriptor(<<"Alpha">>, "Alpha"),
                Entry(<<"Alpha", "Config", "loot.xml">>, file)>>

\* The trees of SpecMain: no modlet; one modlet; two modlets that share a
\* short path; a file whose path is a string prefix of the path of another;
\* a modlet root inside a modlet root; a modlet with a localization table; a
\* descriptor in a directory that is skipped; a descriptor that does not
\* parse.
Layouts ==
    {<<>>,
     Flat(OneChild),
     Flat(OneChild) \o <<Descriptor(<<"Beta">>, "Beta"),
                         Entry(<<"Beta", "Config", "loot.xml">>, OneChild)>>,
     Flat(OneChild) \o <<Entry(<<"Alpha", "Config", "loot.xml.bak.xml">>, OneChild)>>,
     Flat(OneChild) \o <<Descriptor(<<"Alpha", "Inner">>, "Inner"),
                         Entry(<<"Alpha", "Inner", "Config", "items.xml">>, OneChild)>>,
     <<Descriptor(<<"Alpha">>, "Alpha"),
       Entry(<<"Alpha", "Config", "Localization.txt">>, [table |-> OneRecord]),
       Entry(<<"Alpha", "Config", "loot.xml">>, OneChild)>>,
     Flat(OneChild) \o <<Descriptor(<<"__pycache__">>, "Cache"),
                         Entry(<<"__pycache__", "Config", "items.xml">>, OneChild)>>,
     <<Entry(<<"Alpha", "ModInfo.xml">>, PlainFile(Malformed)),
       Entry(<<"Alpha", "Config", "loot.xml">>, OneChild)>>}

\* The database file: not there, left by an earlier invocation, or at a
\* path sqlite3 cannot open.  The output directory: one that makedirs can
\* create or find, or one it cannot create.
Envs == {[db |-> d, outdir |-> o] :
            d \in {"absent", "present", "unopenable"},
            o \in {"creatable", "uncreatable"}}

\* The tree of an earlier invocation, whose modlet has since been removed.
OldTree ==
    <<Descriptor(<<"Old">>, "Old"),
      Entry(<<"Old", "Config", "Localization.txt">>, [table |-> OneRecord]),
      Entry(<<"Old", "Config", "old.xml">>, OneChild)>>

\* The store an earlier invocation left in the database file.
OldStore(enc) == find_modlets(FinderState(EmptyMap, <<>>, <<>>), OldTree, enc)

\* The output directory an earlier invocation left: nothing, or the files
\* written from OldTree.
OldOutput(previous) ==
    IF previous
    THEN [modinfo_xml |-> TRUE,
          modinfo_doc |-> write_modinfo_xml(combined_modlet_info(GivenArgs)).doc,
          localization_txt |->
                write_localization_file(NoRun.localization_txt,
                    get_localization_data(OldStore("none").localization_data, "none")),
          config_files |->
                post_process_xml_files(
                    write_all(EmptyMap, write_xml_files(OldStore("none").xml_data, "none")))]
    ELSE [modinfo_xml |-> FALSE, modinfo_doc |-> Malformed,
          localization_txt |-> NoRun.localization_txt, config_files |-> EmptyMap]

----------------------------------------------------------------------------
(* modletCombiner.py: main *)

InitMain ==
    /\ encoding \in Encodings
    /\ env \in Envs
    /\ layout \in Layouts
    /\ \E previous \in BOOLEAN :
        /\ env.outdir = "uncreatable" => ~previous
        /\ modinfo_xml = OldOutput(previous).modinfo_xml
        /\ modinfo_doc = OldOutput(previous).modinfo_doc
        /\ localization_txt = OldOutput(previous).localization_txt
        /\ config_files = OldOutput(previous).config_files
    /\ modlets = IF env.db = "present" THEN OldStore(encoding).modlets ELSE EmptyMap
    /\ xml_data = IF env.db = "present" THEN OldStore(encoding).xml_data ELSE <<>>
    /\ localization_data =
            IF env.db = "present" THEN OldStore(encoding).localization_data ELSE <<>>
    /\ written_files = EmptyMap
    /\ original_total_size = 0
    /\ file_xml_block_counts = EmptyMap
    /\ warnings = {}
    /\ checked_files = EmptyMap
    /\ cur = 0
    /\ found = <<>>
    /\ tree = <<>>
    /\ runs = 0
    /\ raised = FALSE
    /\ parsed = <<>>
    /\ loc_parsed = <<>>
    /\ pc = "parse_arguments"
    /\ run_no = 1
    /\ args = GivenArgs
    /\ log = {}
    /\ exc = ""
    /\ exit_code = "running"
    /\ xml_files = <<>>
    /\ localization_files = <<>>
    /\ first_run = NoRun
    /\ calls = <<>>

\* parse_arguments and setup_logging
ParseArguments(a) ==
    /\ pc = "parse_arguments"
    /\ args' = a
    /\ log' = {"7 Days to Die Modlet Combiner started"}
    /\ pc' = "initialize"
    /\ UNCHANGED <<store_vars, output_vars, writer_vars, cur, found, runs, raised, tree,
                   parsed, loc_parsed, run_no, env, layout, exc, exit_code, modinfo_doc,
                   xml_files, localization_files, first_run, calls>>

\* wipe_database: the tables are dropped; "DELETE FROM sqlite_sequence"
\* fails in a database that never held an AUTOINCREMENT table, the error is
\* caught and logged.
wipe_database(db) == IF db = "absent" THEN {"Error wiping database"} ELSE {}

\* db_processor.initialize('modlet_combiner.db', wipe=True): sqlite3.connect
\* raises for a path it cannot open; otherwise the tables are wiped and
\* created.
Initialize ==
    /\ pc = "initialize"
    /\ IF env.db = "unopenable"
       THEN /\ exc' = "OperationalError"
            /\ pc' = "finish"
            /\ UNCHANGED <<modlets, xml_data, localization_data, log, env>>
       ELSE /\ log' = log \cup wipe_database(env.db)
            /\ modlets' = EmptyMap
            /\ xml_data' = <<>>
            /\ localization_data' = <<>>
            /\ env' = [env EXCEPT !.db = "present"]
            /\ pc' = "setup_environment"
            /\ exc' = exc
    /\ UNCHANGED <<encoding, output_vars, writer_vars, cur, found, runs, raised, tree,
                   parsed, loc_parsed, run_no, args, layout, exit_code, modinfo_doc,
                   xml_files, localization_files, first_run, calls>>

\* reset_output_directory: its first statement calls _get_output_path
\* without the argument the method requires; the TypeError is caught by the
\* handler of the method and logged, and no file is removed.
reset_output_directory(files) ==
    [logged |-> {"Error resetting output directory"}, files |-> files]

\* setup_environment: a ModletWriter with its XMLWriter is made and the
\* output directory is reset.
SetupEnvironment ==
    /\ pc = "setup_environment"
    /\ written_files' = EmptyMap
    /\ original_total_size' = 0
    /\ file_xml_block_counts' = EmptyMap
    /\ warnings' = {}
    /\ checked_files' = EmptyMap
    /\ \E reset \in {reset_output_directory(<<modinfo_xml, localization_txt, config_files>>)} :
        /\ modinfo_xml' = reset.files[1]
        /\ localization_txt' = reset.files[2]
        /\ config_files' = reset.files[3]
        /\ log' = log \cup reset.logged
    /\ pc' = "find_modlets"
    /\ UNCHANGED <<store_vars, cur, found, runs, raised, tree, parsed, loc_parsed,
                   run_no, args, env, layout, exc, exit_code, modinfo_doc, xml_files,
                   localization_files, first_run, calls>>

\* run_modlet_combiner: ModletFinder(source_path).find_modlets() over the
\* source tree, in which the output directory lies; os.walk meets it after
\* or before the modlets.
FindModlets ==
    /\ pc = "find_modlets"
    /\ \E out \in {OutputEntries(modinfo_xml, modinfo_doc, localization_txt, config_files)} :
       \E disk \in {layout \o out, out \o layout} :
       \E st \in {find_modlets(FinderState(modlets, xml_data, localization_data),
                               disk, encoding)} :
        /\ modlets' = st.modlets
        /\ xml_data' = st.xml_data
        /\ localization_data' = st.localization_data
        /\ xml_files' = st.xml_files
        /\ localization_files' = st.localization_files
        /\ found' = st.found
        /\ parsed' = st.parsed
        /\ loc_parsed' = st.loc_parsed
        /\ cur' = Len(Roots(disk))
    /\ pc' = "write_modlet"
    /\ UNCHANGED <<encoding, output_vars, writer_vars, runs, raised, tree, run_no, args,
                   env, layout, log, exc, exit_code, modinfo_doc, first_run, calls>>

\* run_modlet_combiner: the dictionary is built from the arguments and
\* write_modlet is called.  _create_output_directory raises OSError when the
\* directory cannot be made, _write_modinfo_xml raises for a name or a
\* website that is None, check_total_filesize raises when nothing was
\* written; write_modlet and run_modlet_combiner log the exception and raise
\* it again.
WriteCombined ==
    /\ pc = "write_modlet"
    /\ runs' = runs + 1
    /\ \E descriptor \in {write_modinfo_xml(combined_modlet_info(args))} :
        IF env.outdir = "uncreatable"
        THEN /\ exc' = "OSError"
             /\ raised' = TRUE
             /\ UNCHANGED <<output_vars, writer_vars, modinfo_doc>>
        ELSE IF descriptor.raised # ""
        THEN /\ exc' = descriptor.raised
             /\ raised' = TRUE
             /\ UNCHANGED <<output_vars, writer_vars, modinfo_doc>>
        ELSE /\ modinfo_xml' = TRUE
             /\ modinfo_doc' = descriptor.doc
             /\ WriteFiles
             /\ exc' = IF raised' THEN "ZeroDivisionError" ELSE ""
    /\ log' = log \cup (IF exc' # ""
                        THEN {"Error writing combined modlet",
                              "Error in modlet combination process"}
                        ELSE {"Modlet combination completed successfully."})
    /\ pc' = "finish"
    /\ UNCHANGED <<store_vars, cur, found, tree, parsed, loc_parsed, run_no, args, env,
                   layout, exit_code, xml_files, localization_files, first_run, calls>>

\* The end of main: the handler of the try statement logs the exception it
\* caught, the finally clause and the statement after it log their
\* messages, and main returns, so the process ends with status 0.
Finish ==
    /\ pc = "finish"
    /\ log' = log \cup (IF exc # "" THEN {"An error occurred in main"} ELSE {})
                  \cup {"7 Days to Die Modlet Combiner finished",
                        "7 Days to Die Modlet Combiner completed successfully"}
    /\ exit_code' = "0"
    /\ pc' = "done"
    /\ UNCHANGED <<store_vars, output_vars, writer_vars, cur, found, runs, raised, tree,
                   parsed, loc_parsed, run_no, args, env, layout, exc, modinfo_doc,
                   xml_files, localization_files, first_run, calls>>

\* The program is started again with the same command line over the same
\* source tree: a new process, with the database file and the output
\* directory as the invocation before left them.
RunAgain ==
    /\ pc = "done"
    /\ run_no < MaxRuns
    /\ run_no' = run_no + 1
    /\ first_run' = [xml_data |-> xml_data, localization_data |-> localization_data,
                     config_files |-> config_files, localization_txt |-> localization_txt,
                     modinfo_xml |-> modinfo_xml]
    /\ log' = {"7 Days to Die Modlet Combiner started"}
    /\ exc' = ""
    /\ exit_code' = "running"
    /\ pc' = "initialize"
    /\ cur' = 0
    /\ found' = <<>>
    /\ runs' = 0
    /\ raised' = FALSE
    /\ parsed' = <<>>
    /\ loc_parsed' = <<>>
    /\ xml_files' = <<>>
    /\ localization_files' = <<>>
    /\ UNCHANGED <<store_vars, output_vars, writer_vars, tree, args, env, layout,
                   modinfo_doc, calls>>

NextMain ==
    \/ \E a \in ArgSets : ParseArguments(a)
    \/ Initialize
    \/ SetupEnvironment
    \/ FindModlets
    \/ WriteCombined
    \/ Finish
    \/ RunAgain

SpecMain == InitMain /\ [][NextMain]_vars

----------------------------------------------------------------------------
(* db_processor.py: what the store operations and the decoder return *)

MaxCalls == 2    \* calls made on the store in one behaviour of SpecStore

\* A stored string, by what _decode_data asks of it: whether all its
\* characters are ASCII, whether it is base64 text, whether the bytes it
\* stands for are UTF-8 and which text they are, and whether it is longer
\* than 50 characters.
Stored(text, ascii, base64, utf8, payload, long) ==
    [text |-> text, ascii |-> ascii, base64 |-> base64, utf8 |-> utf8,
     payload |-> payload, long |-> long]

\* The empty string; the base64 form of "Alpha"; a plain name that is no
\* base64 text; base64 text of the byte FF, which is not UTF-8; a name with
\* an accented letter; a text of more than 50 characters with one.
StoredStrings ==
    {Stored("", TRUE, TRUE, TRUE, "", FALSE),
     Stored("QWxwaGE=", TRUE, TRUE, TRUE, "Alpha", FALSE),
     Stored("Alpha", TRUE, FALSE, FALSE, "", FALSE),
     Stored("/w==", TRUE, TRUE, FALSE, "", FALSE),
     Stored("Ete with acute accents", FALSE, FALSE, FALSE, "", FALSE),
     Stored("a long text with an acute accent", FALSE, FALSE, FALSE, "", TRUE)}

\* _decode_data: data.encode('ascii') is evaluated first in the try statement
\* and raises UnicodeEncodeError for a character above 127, which the
\* handler for (binascii.Error, UnicodeDecodeError) does not catch; the
\* branch that truncates is reached for no string.
decode_stored(enc, data) ==
    IF data.text = "" THEN [raised |-> "", value |-> ""]
    ELSE IF enc # "base64" THEN [raised |-> "", value |-> data.text]
    ELSE IF ~data.ascii THEN [raised |-> "UnicodeEncodeError", value |-> None]
    ELSE IF data.base64 /\ data.utf8 THEN [raised |-> "", value |-> data.payload]
    ELSE IF data.ascii THEN [raised |-> "", value |-> data.text]
    ELSE [raised |-> "", value |-> IF data.long THEN "the first 50 characters..."
                                   ELSE data.text]

\* What store_modlet_info returns: the identifier, or None after sqlite3.Error.
store_modlet_info_returns(name, version, fails) ==
    IF fails THEN None ELSE generate_unique_id(name, version)

\* store_xml_data has no return statement: it returns None after the commit
\* and None after the handler of sqlite3.Error logged the error.
store_xml_data_returns(fails) == None

\* store_localization_data has no return statement either.
store_localization_data_returns(fails) == None

Call(op, failed, exception, result) ==
    [op |-> op, failed |-> failed, raised |-> exception, result |-> result]

\* store_modlet_info(modlet_info); the execute or the commit may raise
\* sqlite3.Error, and then nothing is stored.
StoreModletInfo(name, version, fails) ==
    /\ Len(calls) < MaxCalls
    /\ modlets' = IF fails THEN modlets ELSE store_modlet_info(modlets, name, version)
    /\ calls' = Append(calls, Call("store_modlet_info", fails, "",
                                   store_modlet_info_returns(name, version, fails)))
    /\ UNCHANGED <<encoding, xml_data, localization_data, output_vars, writer_vars, cur,
                   found, runs, raised, tree, parsed, loc_parsed, main_vars>>

\* store_xml_data for the content of a fragment file
StoreXmlData(modlet_name, fails) ==
    /\ Len(calls) < MaxCalls
    /\ xml_data' = IF fails THEN xml_data
                   ELSE store_xml_data(xml_data, encoding, modlet_name,
                                       generate_unique_id(modlet_name, Version),
                                       <<modlet_name, "Config", "loot.xml">>, "loot.xml",
                                       "config", <<Element("append", "a", 1)>>)
    /\ calls' = Append(calls, Call("store_xml_data", fails, "",
                                   store_xml_data_returns(fails)))
    /\ UNCHANGED <<encoding, modlets, localization_data, output_vars, writer_vars, cur,
                   found, runs, raised, tree, parsed, loc_parsed, main_vars>>

\* store_localization_data for one record of a table
StoreLocalizationData(modlet_name, fails) ==
    /\ Len(calls) < MaxCalls
    /\ localization_data' =
            IF fails THEN localization_data
            ELSE parse_record(localization_data, encoding, LocalizationPath(modlet_name),
                              modlet_name, generate_unique_id(modlet_name, Version),
                              DataRecord("k1", MinColumns, 1))
    /\ calls' = Append(calls, Call("store_localization_data", fails, "",
                                   store_localization_data_returns(fails)))
    /\ UNCHANGED <<encoding, modlets, xml_data, output_vars, writer_vars, cur, found,
                   runs, raised, tree, parsed, loc_parsed, main_vars>>

\* _decode_data(data)
DecodeData(data) ==
    /\ Len(calls) < MaxCalls
    /\ calls' = Append(calls, Call("_decode_data", FALSE,
                                   decode_stored(encoding, data).raised,
                                   decode_stored(encoding, data).value))
    /\ UNCHANGED <<store_vars, output_vars, writer_vars, cur, found, runs, raised, tree,
                   parsed, loc_parsed, main_vars>>

NextStore ==
    \/ \E name \in Names : \E version \in Versions : \E fails \in BOOLEAN :
            StoreModletInfo(name, version, fails)
    \/ \E m \in Range(Modlets) : \E fails \in BOOLEAN : StoreXmlData(m, fails)
    \/ \E m \in Range(Modlets) : \E fails \in BOOLEAN : StoreLocalizationData(m, fails)
    \/ \E data \in StoredStrings : DecodeData(data)

SpecStore == Init /\ [][NextStore]_vars

----------------------------------------------------------------------------
(* Claims about the XML fragments, under Spec *)

\* C1: a well-formed fragment file whose root has N child elements leaves
\* exactly N content blocks in the store, and the combined file of a short
\* path holds as many wrapped blocks as its source files have children.
C1_OneBlockPerChild ==
    /\ \A i \in 1..Len(parsed) :
            parsed[i].doc.ok =>
                Cardinality({r \in 1..Len(xml_data) : xml_data[r].full_path = parsed[i].path})
                    = Len(parsed[i].doc.children)
    /\ Assembled =>
            \A i \in 1..Len(parsed) :
                parsed[i].doc.ok =>
                    LET f == xml_get_short_path(parsed[i].path)
                        sources == SelectSeq(parsed, LAMBDA p :
                                        p.doc.ok /\ xml_get_short_path(p.path) = f)
                    IN  Len(BlocksOf(config_files[f]))
                            = Sum([k \in 1..Len(sources) |-> Len(sources[k].doc.children)])

\* C2: in the combined file of every short path the blocks stand in the
\* order in which they were recorded in the store, whatever their structural
\* tags and owning modlets.
C2_InsertionOrder ==
    Assembled =>
        \A f \in DOMAIN config_files :
            LET blocks == BlocksOf(config_files[f])
                rows   == RowsOf(f)
            IN  [k \in 1..Len(blocks) |-> blocks[k].content]
                    = [k \in 1..Len(rows) |-> decode_data(encoding, rows[k].content)]

\* The rows of short path f recorded by the first k modlets.
RowsUpTo(f, k) ==
    SelectSeq(RowsOf(f), LAMBDA r : \E j \in 1..k : r.modlet_name = Modlets[j])

\* C3: when all files of modlet A are recorded before any file of modlet B,
\* every block of A precedes every block of B in the combined file: the
\* first blocks of the file are those of the earlier modlets.
C3_ModletOrder ==
    Assembled =>
        \A f \in DOMAIN config_files : \A k \in 1..Len(Modlets) :
            LET blocks  == BlocksOf(config_files[f])
                earlier == RowsUpTo(f, k)
            IN  /\ Len(blocks) >= Len(earlier)
                /\ SameBag([i \in 1..Len(earlier) |-> blocks[i].content],
                           [i \in 1..Len(earlier) |-> decode_data(encoding, earlier[i].content)])

\* C4: each block of a combined file stands between a start marker and an
\* end marker that both name the modlet that contributed the block: the
\* blocks with their markers are the rows with their modlet names.
C4_MarkersNameOwner ==
    Assembled =>
        \A f \in DOMAIN config_files :
            LET blocks == BlocksOf(config_files[f])
                rows   == RowsOf(f)
            IN  SameBag([k \in 1..Len(blocks) |->
                            <<blocks[k].start, blocks[k].end, blocks[k].content>>],
                        [k \in 1..Len(rows) |->
                            <<rows[k].modlet_name, rows[k].modlet_name,
                              decode_data(encoding, rows[k].content)>>])

\* C5: a store built from a single modlet assembles into files that have
\* the root tag and the elements of that modlet's fragment files.
C5_RoundTrip ==
    (Assembled /\ cur = 1) =>
        \A i \in 1..Len(parsed) :
            parsed[i].doc.ok =>
                LET out == config_files[xml_get_short_path(parsed[i].path)]
                IN  /\ RootOf(out) = parsed[i].doc.root
                    /\ ElementsOf(out) = parsed[i].doc.children

\* C6: a second write_modlet call against the unchanged store leaves every
\* output file as the first call left it.
C6_Idempotent ==
    [][(runs >= 1 /\ runs' = runs + 1) =>
            /\ config_files' = config_files
            /\ localization_txt' = localization_txt
            /\ modinfo_xml' = modinfo_xml]_vars

\* Two calls were made and the de-indent pass moved the element of a block
\* and its nested child one level up.
C6_Witness ==
    /\ runs = MaxRuns
    /\ ~raised
    /\ \E f \in DOMAIN config_files : \E i \in 1..Len(config_files[f]) - 1 :
            /\ config_files[f][i] = Line(1, "open", "append", "a")
            /\ config_files[f][i + 1] = Line(2, "empty", "kid", "")

----------------------------------------------------------------------------
(* Claims about the localization tables, under SpecLoc *)

\* The records of a table that are to be stored: not the first record, not
\* blank, not a comment, and of at least 20 fields.
ToBeStored(content) ==
    IF content = <<>> THEN <<>>
    ELSE SelectSeq(Tail(content), LAMBDA r :
            /\ r # <<>>
            /\ ~StartsWithHash(r[1])
            /\ Len(r) >= Len(EXPECTED_HEADER))

\* The records to be stored of all the tables parsed, in the order parsed,
\* each with the modlet and path of its table.
SourceRows ==
    Flatten([t \in 1..Len(loc_parsed) |->
                [i \in 1..Len(ToBeStored(loc_parsed[t].content)) |->
                    [modlet |-> loc_parsed[t].modlet,
                     path   |-> loc_parsed[t].path,
                     fields |-> ToBeStored(loc_parsed[t].content)[i]]]])

\* The data lines of the combined table: its lines after the header.
DataLines == IF localization_txt.exists THEN Tail(localization_txt.lines) ELSE <<>>

KeysOnly(s, k) == SelectSeq(s, LAMBDA x : x = k)

\* C7: rows of distinct modlets that share a translation key are all
\* retained: for every key the combined table has as many data rows as the
\* modlets' tables have accepted rows of that key.
C7_SharedKeysRetained ==
    runs >= 1 =>
        \A k \in Keys :
            Len(KeysOnly([i \in 1..Len(DataLines) |-> DataLines[i][1].val], k))
                = Len(KeysOnly([i \in 1..Len(SourceRows) |-> SourceRows[i].fields[1]], k))

\* Both modlets supplied an accepted row of key "k1" and the combined table
\* was written with two rows of that key.
C7_Witness ==
    /\ runs >= 1
    /\ \E i, j \in 1..Len(SourceRows) :
            /\ SourceRows[i].modlet # SourceRows[j].modlet
            /\ SourceRows[i].fields[1] = "k1"
            /\ SourceRows[j].fields[1] = "k1"
    /\ Len(KeysOnly([i \in 1..Len(DataLines) |-> DataLines[i][1].val], "k1")) >= 2

\* C8: the store holds at most one row per (modlet, path, key).
C8_OneRowPerKey ==
    \A i, j \in 1..Len(localization_data) :
        (/\ localization_data[i].col["modlet_name"] = localization_data[j].col["modlet_name"]
         /\ localization_data[i].col["full_path"] = localization_data[j].col["full_path"]
         /\ localization_data[i].col["key"] = localization_data[j].col["key"])
            => i = j

\* C9: a record is stored if and only if it is not the first record, is
\* not blank, does not start with '#' and has at least 20 fields: the rows
\* of the store are those records, in order, and no row holds a field
\* beyond the twentieth.
C9_StoredIffAccepted ==
    /\ Len(localization_data) = Len(SourceRows)
    /\ \A i \in 1..Len(localization_data) :
            /\ decode_data(encoding, localization_data[i].col["modlet_name"])
                    = SourceRows[i].modlet
            /\ decode_data(encoding, localization_data[i].col["key"])
                    = SourceRows[i].fields[1]
            /\ decode_data(encoding, localization_data[i].col["file"])
                    = SourceRows[i].fields[2]
            /\ \A c \in DOMAIN localization_data[i].col :
                    \A n \in Len(EXPECTED_HEADER) + 1 .. Len(SourceRows[i].fields) :
                        decode_data(encoding, localization_data[i].col[c])
                            # SourceRows[i].fields[n]

\* A table held a record of 19 fields followed by a record of 21 fields:
\* the first was rejected, the second stored.
C9_Witness ==
    \E t \in 1..Len(loc_parsed) :
        LET content == loc_parsed[t].content
        IN  \E i, j \in 2..Len(content) :
                /\ i < j
                /\ Len(content[i]) = Len(EXPECTED_HEADER) - 1
                /\ Len(content[j]) = Len(EXPECTED_HEADER) + 1
                /\ \E r \in 1..Len(localization_data) :
                        decode_data(encoding, localization_data[r].col["file"]) = content[j][2]
                /\ \A r \in 1..Len(localization_data) :
                        decode_data(encoding, localization_data[r].col["file"]) # content[i][2]

\* C10: under each of the 20 header columns the combined table shows the
\* value the source row carried in that column.
C10_ColumnFidelity ==
    (runs >= 1 /\ Len(DataLines) = Len(SourceRows)) =>
        \A i \in 1..Len(SourceRows) : \A c \in 1..Len(EXPECTED_HEADER) :
            DataLines[i][c].val = SourceRows[i].fields[c]

\* C11: after a successful assembly Config/Localization.txt exists, its
\* first line is the static header, and it has exactly one data line per
\* localization row of the store, also when the store holds no rows.
C11_TableAlwaysWritten ==
    Assembled =>
        /\ localization_txt.exists
        /\ localization_txt.lines # <<>>
        /\ Head(localization_txt.lines) = HeaderLine
        /\ Len(DataLines) = Len(localization_data)

----------------------------------------------------------------------------
(* Claims about the modlet identifiers, under SpecId *)

\* C12: two modlets have the same identifier exactly when their
\* (Name, Version) pairs are equal, and the identifier the finder gives a
\* modlet is the one the store gives it.
C12_IdsEqualIffPairsEqual ==
    \A i, j \in 1..Len(found) :
        /\ found[i].unique_id = generate_unique_id(found[i].name, found[i].version)
        /\ (found[i].unique_id = found[j].unique_id)
                <=> (found[i].name = found[j].name /\ found[i].version = found[j].version)

----------------------------------------------------------------------------
(* Claims about the files of the source tree, under Spec *)

\* The store holds a block whose source is the file at the path.
Recorded(path) == \E i \in 1..Len(xml_data) : xml_data[i].full_path = path

\* The file is a readable text of UTF-8 bytes without a byte-order mark.
IsPlain(file) == file.codec = "utf-8" /\ ~file.bom

\* C13: a malformed XML file affects only itself: nothing is recorded for
\* a malformed file, and every well-formed fragment file of the tree is
\* recorded, whichever other file (fragment or descriptor) is malformed.
C13_MalformedIsolated ==
    \A i \in 1..Len(tree) :
        /\ ~tree[i].file.doc.ok => ~Recorded(tree[i].path)
        /\ (/\ tree[i].file.doc.ok
            /\ IsPlain(tree[i].file)
            /\ ~IsDescriptor(tree[i].path)) => Recorded(tree[i].path)

\* The modlet root of the directory was found: its descriptor parsed.
RootFound(dir) == \E i \in 1..Len(found) : found[i].name = dir

\* C14: a well-formed fragment file that starts with a byte-order mark is
\* ingested like the same file without the mark: a block is recorded for
\* it.
C14_BomTolerated ==
    \A i \in 1..Len(tree) :
        (/\ RootFound(tree[i].modlet)
         /\ tree[i].file.codec = "utf-8"
         /\ tree[i].file.bom
         /\ tree[i].file.doc.ok) => Recorded(tree[i].path)

\* C15: a fragment file whose bytes are not valid UTF-8 but are Latin-1 is
\* read by the fallback and recorded.
C15_Latin1Fallback ==
    \A i \in 1..Len(tree) :
        (/\ RootFound(tree[i].modlet)
         /\ tree[i].file.codec = "latin-1"
         /\ tree[i].file.doc.ok) => Recorded(tree[i].path)

\* C16: a descriptor file is never ingested as a fragment: the store holds
\* no block whose source is a ModInfo.xml, and the combined output has no
\* Config/ModInfo.xml.
C16_DescriptorNotIngested ==
    /\ \A i \in 1..Len(xml_data) : ~IsDescriptor(xml_data[i].full_path)
    /\ "ModInfo.xml" \notin DOMAIN config_files

\* The short paths present in the store.
ShortPaths == {xml_data[i].short_path : i \in 1..Len(xml_data)}

\* C17: after an assembly the output holds exactly one file for every
\* short path of the store, and that file holds every block recorded for
\* the short path, whatever the structural tags the blocks were recorded
\* under.
C17_OneFilePerShortPath ==
    runs >= 1 =>
        /\ DOMAIN config_files = ShortPaths
        /\ \A f \in ShortPaths :
                SameBag([k \in 1..Len(BlocksOf(config_files[f])) |->
                            BlocksOf(config_files[f])[k].content],
                        [k \in 1..Len(RowsOf(f)) |->
                            decode_data(encoding, RowsOf(f)[k].content)])

\* A short path was recorded under two structural tags, by a block with
\* content each, and its file was written with both blocks.
C17_Witness ==
    /\ runs >= 1
    /\ \E f \in ShortPaths :
            /\ \E i, j \in 1..Len(RowsOf(f)) :
                    /\ RowsOf(f)[i].outer_tag # RowsOf(f)[j].outer_tag
                    /\ decode_data(encoding, RowsOf(f)[i].content) # <<>>
                    /\ decode_data(encoding, RowsOf(f)[j].content) # <<>>
            /\ f \in DOMAIN config_files
            /\ Len(BlocksOf(config_files[f])) >= 2

\* The path of a fragment file relative to the Config directory of its
\* modlet.
RelativePath(full_path) == SubSeq(full_path, 3, Len(full_path))

\* C18: two fragment files are merged into the same output file exactly
\* when their paths relative to the config root are equal: the blocks of
\* two files share a short path, and so an output file, if and only if the
\* relative paths of the files are equal.
C18_JoinKeyIsRelativePath ==
    \A i, j \in 1..Len(xml_data) :
        (~IsDescriptor(xml_data[i].full_path) /\ ~IsDescriptor(xml_data[j].full_path)) =>
            ((xml_data[i].short_path = xml_data[j].short_path)
                <=> (RelativePath(xml_data[i].full_path) = RelativePath(xml_data[j].full_path)))

\* C19: the size check is advisory: no write_modlet call raises, whatever
\* the store holds, also when no XML file was written.
C19_SizeCheckAdvisory == runs >= 1 => ~raised

\* The length of a text of the store, in the unit of ContentSize: the lines
\* its elements are written on.
TextSize(content) == Len(Flatten([k \in 1..Len(content) |-> ElementLines(content[k], 0)]))

\* The total content length the store recorded for a short path.
DbSize(f) ==
    Sum([k \in 1..Len(RowsOf(f)) |-> TextSize(decode_data(encoding, RowsOf(f)[k].content))])

\* A warning was logged about the file, or about the files as a whole.
Flagged(f) == \E w \in warnings : w.about = f \/ w.about = "total"

\* C20: after writing, a file is flagged by a warning exactly when its
\* written size differs by more than 5% from the total content length the
\* store recorded for its short path.
C20_PerFileTolerance ==
    Assembled =>
        \A f \in DOMAIN config_files :
            DbSize(f) > 0 =>
                (Flagged(f) <=>
                    AbsDiff(ContentSize(config_files[f]), DbSize(f)) * 100
                        > Tolerance * DbSize(f))

----------------------------------------------------------------------------
(* Claims about the checks and the de-indent pass, under Spec *)

\* C29: the integrity checks run on the final output: after a write_modlet
\* call the combined XML files are as the validity check and the size check
\* found them.
C29_ChecksSeeFinalOutput == Assembled => config_files = checked_files

\* The lines of a file with one level of indentation taken from every line
\* that lies inside its outer wrapper, the wrapper being its first and last
\* line.
OneLevelStripped(lines) ==
    [i \in 1..Len(lines) |->
        IF 1 < i /\ i < Len(lines)
        THEN [lines[i] EXCEPT !.indent = @ - 1]
        ELSE lines[i]]

\* C25: the de-indent pass takes exactly one level of indentation from every
\* line inside the outer wrapper of every emitted file and leaves all other
\* lines as they were, also in blocks that hold an element named like the
\* wrapper.
C25_OneLevelStripped ==
    Assembled =>
        \A f \in DOMAIN config_files :
            config_files[f] = OneLevelStripped(checked_files[f])

----------------------------------------------------------------------------
(* Claims about the whole run, under SpecMain *)

\* A step of the preparation failed in this invocation: the store could not
\* be opened or wiped, or the output directory could not be reset or made.
PreparationFailed ==
    \/ exc \in {"OperationalError", "OSError"}
    \/ "Error wiping database" \in log
    \/ "Error resetting output directory" \in log

\* C21: when the initialization of the store or the preparation of the
\* output directory fails, the run aborts: after the failure no descriptor,
\* no localization table and no combined XML file is written.
C21_AbortOnPreparationFailure ==
    [][PreparationFailed =>
            /\ modinfo_xml' = modinfo_xml
            /\ modinfo_doc' = modinfo_doc
            /\ localization_txt' = localization_txt
            /\ config_files' = config_files]_vars

\* The invocation hit an error the specification calls fatal.
Fatal == exc \in {"OperationalError", "OSError"}

\* C22: the outcome of a run tells fatal errors from success: a run that
\* hit a fatal error ends with a failure status and is not reported as
\* completed successfully, a run without any exception ends with status 0.
C22_OutcomeReflectsFatal ==
    pc = "done" =>
        /\ Fatal => /\ exit_code # "0"
                    /\ "7 Days to Die Modlet Combiner completed successfully" \notin log
        /\ exc = "" => exit_code = "0"

\* C26: when reset_output_directory has returned, the output directory
\* holds no ModInfo.xml, no Localization.txt and no file in Config.
C26_OutputReset ==
    pc = "find_modlets" =>
        /\ ~modinfo_xml
        /\ ~localization_txt.exists
        /\ config_files = EmptyMap

\* The blocks of the store without their row numbers.
BlockSet(rows) ==
    {<<rows[k].modlet_name, rows[k].full_path, rows[k].outer_tag, rows[k].content>> :
        k \in 1..Len(rows)}

\* C27: the output of an earlier run is not ingested: the second invocation
\* over the same tree records the blocks and rows the first recorded and
\* leaves the combined files the first left.
C27_SecondRunSame ==
    (pc = "done" /\ run_no = 2) =>
        /\ BlockSet(xml_data) = BlockSet(first_run.xml_data)
        /\ Len(localization_data) = Len(first_run.localization_data)
        /\ config_files = first_run.config_files
        /\ localization_txt = first_run.localization_txt

\* The number of calls of a parser made for the file at the path.
Times(history, path) == Cardinality({k \in 1..Len(history) : history[k].path = path})

\* C28: in one run every fragment file and every localization file that
\* was located is parsed once and recorded once.
C28_ParsedOnce ==
    pc = "write_modlet" =>
        /\ \A p \in Range(xml_files) :
                ~IsDescriptor(p) =>
                    /\ Times(parsed, p) = 1
                    /\ Cardinality({k \in 1..Len(xml_data) : xml_data[k].full_path = p}) = 1
        /\ \A p \in Range(localization_files) : Times(loc_parsed, p) = 1

\* The command line with the source path only.
NoArgs == [n \in ArgNames |-> None]

Defaults ==
    [Name |-> "Combined Modlet", Author |-> "Modlet Combiner",
     Description |-> "A combined modlet", Version |-> "1.0.0", Website |-> ""]

\* C30: a run started with the source path only, over a tree with a modlet,
\* completes and writes the descriptor with the default values.
C30_DefaultsUsed ==
    (/\ pc = "done"
     /\ run_no = 1
     /\ args = NoArgs
     /\ found # <<>>
     /\ ~Fatal) =>
        /\ exc = ""
        /\ modinfo_xml
        /\ modinfo_doc = write_modinfo_xml(Defaults).doc

----------------------------------------------------------------------------
(* Claims about the store operations, under SpecStore *)

StoreOps == {"store_modlet_info", "store_xml_data", "store_localization_data"}

\* C23: a store operation whose write failed returns something else than
\* the same operation returns after a write that succeeded.
C23_FailureSignalled ==
    \A i, j \in 1..Len(calls) :
        (/\ calls[i].op \in StoreOps
         /\ calls[i].op = calls[j].op
         /\ calls[i].failed
         /\ ~calls[j].failed) => calls[i].result # calls[j].result

\* C24: decoding never raises: _decode_data returns a value for every
\* stored string.
C24_DecodeNeverRaises ==
    \A i \in 1..Len(calls) : calls[i].op = "_decode_data" => calls[i].raised = ""

====
